---- MODULE Spec2Model ----
(***************************************************************************)
(* State-machine model of the lecture programs of the repository.  Every   *)
(* program is a standalone `main`; the variable `program` says which one   *)
(* is running, and each action belongs to one program.                     *)
(*                                                                         *)
(* Fixed-width integers (u32, i32) are little-endian sequences of 8-bit    *)
(* limbs, so that values up to 2^32-1 and their exact 64-bit products can  *)
(* be computed without leaving the range of the model checker's integers.  *)
(***************************************************************************)
EXTENDS Integers, Sequences, FiniteSets

VARIABLES
    program,        \* which lecture binary is running
    overflowChecks, \* build profile: TRUE = debug (overflow panics), FALSE = release (wraps)
    \* lecture4 paths.rs
    rect, area, perimeter, pcPaths,
    \* lecture5 main.rs
    home, loopback, pcIp, arm, homeArm, v6, loopbackArm, ipOut,
    \* lecture7 mybox.rs
    x, z, derefs, pcBox,
    \* lecture11 shared_mem3.rs
    m, num, mOut, pcMutex,
    \* lecture8 rc_example.rs
    rcbox, live, rcOut, pcRc,
    \* lecture11 spawn1.rs, lecture10 4capture_by_move.rs, lecture11 message_passing2.rs
    tMain, tWorker, tOut, chan, senders, rxLive, sendLog,
    \* lecture10 5iterator.rs
    v1, v2, zipIdx, collected, sumIdx, sum, pcIter,
    \* lecture12 1deckarative_macro.rs
    args, tokens, operands, armsUsed, acc, pcMacro

pathsVars == <<rect, area, perimeter, pcPaths>>
ipVars == <<home, loopback, pcIp, arm, homeArm, v6, loopbackArm, ipOut>>
boxVars == <<x, z, derefs, pcBox>>
mutexVars == <<m, num, mOut, pcMutex>>
rcVars == <<rcbox, live, rcOut, pcRc>>
threadVars == <<tMain, tWorker, tOut, chan, senders, rxLive, sendLog>>
iterVars == <<v1, v2, zipIdx, collected, sumIdx, sum, pcIter>>
macroVars == <<args, tokens, operands, armsUsed, acc, pcMacro>>
vars == <<program, overflowChecks, pathsVars, ipVars, boxVars, mutexVars, rcVars,
          threadVars, iterVars, macroVars>>

\* what the actions of one program leave alone
ExceptPaths == <<program, overflowChecks, ipVars, boxVars, mutexVars, rcVars, threadVars, iterVars, macroVars>>
ExceptIp == <<program, overflowChecks, pathsVars, boxVars, mutexVars, rcVars, threadVars, iterVars, macroVars>>
ExceptBox == <<program, overflowChecks, pathsVars, ipVars, mutexVars, rcVars, threadVars, iterVars, macroVars>>
ExceptMutex == <<program, overflowChecks, pathsVars, ipVars, boxVars, rcVars, threadVars, iterVars, macroVars>>
ExceptRc == <<program, overflowChecks, pathsVars, ipVars, boxVars, mutexVars, threadVars, iterVars, macroVars>>
ExceptThreads == <<program, overflowChecks, pathsVars, ipVars, boxVars, mutexVars, rcVars, iterVars, macroVars>>
ExceptIter == <<program, overflowChecks, pathsVars, ipVars, boxVars, mutexVars, rcVars, threadVars, macroVars>>
ExceptMacro == <<program, overflowChecks, pathsVars, ipVars, boxVars, mutexVars, rcVars, threadVars, iterVars>>

Programs ==
    {"paths", "ip", "mybox", "shared_mem3", "rc_example", "spawn1", "capture_by_move",
     "message_passing2", "iterator", "macro"}

(***************************************************************************)
(* Fixed-width arithmetic on limb sequences                                *)
(***************************************************************************)
\* a u32 / i32 is four 8-bit limbs; the exact result of one `*` or `+` fits eight
U32Limbs == 4
WideLimbs == 2 * U32Limbs

\* the n-limb little-endian representation of the natural number k
RECURSIVE Limbs(_, _)
Limbs(k, n) == IF n = 0 THEN <<>> ELSE <<k % 256>> \o Limbs(k \div 256, n - 1)

U32(k) == Limbs(k, U32Limbs)

\* widen a to n limbs, filling the new high limbs with `fill`
Ext(a, n, fill) == [i \in 1..n |-> IF i <= Len(a) THEN a[i] ELSE fill]
ZeroExt(a) == Ext(a, WideLimbs, 0)
SignExt(a) == Ext(a, WideLimbs, IF a[Len(a)] >= 128 THEN 255 ELSE 0)

\* a + b modulo 256^Len(a)
RECURSIVE AddFrom(_, _, _, _)
AddFrom(a, b, i, carry) ==
    IF i > Len(a) THEN <<>>
    ELSE LET s == a[i] + b[i] + carry
         IN  <<s % 256>> \o AddFrom(a, b, i + 1, s \div 256)
WrapAdd(a, b) == AddFrom(a, b, 1, 0)

\* a * d modulo 256^Len(a), d a single limb
RECURSIVE MulDigitFrom(_, _, _, _)
MulDigitFrom(a, d, i, carry) ==
    IF i > Len(a) THEN <<>>
    ELSE LET s == a[i] * d + carry
         IN  <<s % 256>> \o MulDigitFrom(a, d, i + 1, s \div 256)

ShiftLimbs(a, k) == [i \in 1..Len(a) |-> IF i <= k THEN 0 ELSE a[i - k]]

\* a * b modulo 256^Len(a)
RECURSIVE MulFrom(_, _, _)
MulFrom(a, b, i) ==
    IF i > Len(b) THEN [j \in 1..Len(a) |-> 0]
    ELSE WrapAdd(ShiftLimbs(MulDigitFrom(a, b[i], 1, 0), i - 1), MulFrom(a, b, i + 1))
WrapMul(a, b) == MulFrom(a, b, 1)

\* results of an operation that may panic
NoResult == [st |-> "none", val |-> <<>>]
Ok(v) == [st |-> "ok", val |-> v]
Panicked == [st |-> "panic", val |-> <<>>]

\* u32 `*` and `+`: with overflow checks an overflow panics, without it wraps
MulU32(a, b, checks) ==
    LET exact == WrapMul(ZeroExt(a), ZeroExt(b))
        wrapped == SubSeq(exact, 1, U32Limbs)
    IN  IF checks /\ ZeroExt(wrapped) # exact THEN Panicked ELSE Ok(wrapped)
AddU32(a, b, checks) ==
    LET exact == WrapAdd(ZeroExt(a), ZeroExt(b))
        wrapped == SubSeq(exact, 1, U32Limbs)
    IN  IF checks /\ ZeroExt(wrapped) # exact THEN Panicked ELSE Ok(wrapped)

\* the i32 with value k, in two's complement
I32(k) ==
    IF k >= 0 THEN Limbs(k, U32Limbs)
    ELSE LET l == Limbs((k + 2147483647) + 1, U32Limbs)
         IN  [l EXCEPT ![U32Limbs] = @ + 128]

\* i32 `*` and `+`: with overflow checks an overflow panics, without it wraps
MulI32(a, b, checks) ==
    LET exact == WrapMul(SignExt(a), SignExt(b))
        wrapped == SubSeq(exact, 1, U32Limbs)
    IN  IF checks /\ SignExt(wrapped) # exact THEN Panicked ELSE Ok(wrapped)
AddI32(a, b, checks) ==
    LET exact == WrapAdd(SignExt(a), SignExt(b))
        wrapped == SubSeq(exact, 1, U32Limbs)
    IN  IF checks /\ SignExt(wrapped) # exact THEN Panicked ELSE Ok(wrapped)

SeqsUpTo(S, n) == UNION {[1..k -> S] : k \in 0..n}
Min(i, j) == IF i <= j THEN i ELSE j

(***************************************************************************)
(* lecture4/src/paths.rs: shapes::new_rect, Rect::get_area, get_perimeter  *)
(***************************************************************************)
U32Max == <<255, 255, 255, 255>>
U32Samples ==
    {U32(0), U32(1), U32(2), U32(5), U32(6), U32(65535), U32(65536),
     <<0, 0, 0, 128>>, <<255, 255, 255, 127>>, U32Max}

NoRect == [set |-> FALSE, width |-> U32(0), height |-> U32(0)]

new_rect(width, height) == [set |-> TRUE, width |-> width, height |-> height]

get_area(self, checks) == MulU32(self.width, self.height, checks)

get_perimeter(self, checks) ==
    LET w2 == MulU32(self.width, U32(2), checks)
        h2 == MulU32(self.height, U32(2), checks)
    IN  IF w2.st = "panic" \/ h2.st = "panic" THEN Panicked
        ELSE AddU32(w2.val, h2.val, checks)

NewRect ==
    /\ program = "paths" /\ pcPaths = "new"
    /\ \E w \in U32Samples, h \in U32Samples : rect' = new_rect(w, h)
    /\ pcPaths' = "area"
    /\ UNCHANGED <<area, perimeter, ExceptPaths>>

GetArea ==
    /\ program = "paths" /\ pcPaths = "area"
    /\ area' = get_area(rect, overflowChecks)
    /\ pcPaths' = IF area'.st = "panic" THEN "panicked" ELSE "perimeter"
    /\ UNCHANGED <<rect, perimeter, ExceptPaths>>

GetPerimeter ==
    /\ program = "paths" /\ pcPaths = "perimeter"
    /\ perimeter' = get_perimeter(rect, overflowChecks)
    /\ pcPaths' = IF perimeter'.st = "panic" THEN "panicked" ELSE "done"
    /\ UNCHANGED <<rect, area, ExceptPaths>>

(***************************************************************************)
(* lecture5/src/main.rs: enum IpAddr and the two match expressions         *)
(***************************************************************************)
V4(a, b, c, d) == [tag |-> "V4", o |-> <<a, b, c, d>>, s |-> ""]
V6(s) == [tag |-> "V6", o |-> <<>>, s |-> s]

IpSamples ==
    {V4(a, 0, 0, d) : a \in {0, 126, 127, 128, 129, 255}, d \in {0, 1, 2}}
        \cup {V6("::1"), V6("::2")}

\* arm k of `match home` accepts ip
HomeArmAccepts(k, ip) ==
    CASE k = 1 -> ip.tag = "V4" /\ ip.o[1] = 127
      [] k = 2 -> ip.tag = "V4"
      [] k = 3 -> TRUE

\* faulty variant: the or-pattern of the first arm has lost its second alternative
LoopbackArmAcceptsNoOr(k, ip) ==
    CASE k = 1 -> ip.tag = "V4" /\ ip.o[1] = 127
      [] k = 2 -> ip.tag = "V4" /\ ip.o[1] = 127 /\ ip.o[4] = 1
      [] k = 3 -> ip.tag = "V4"
      [] k = 4 -> ip.tag = "V6"

\* arm k of `match loopback` accepts ip (pattern and guard)
LoopbackArmAccepts(k, ip) ==
    CASE k = 1 -> \/ ip.tag = "V4" /\ ip.o[1] = 127
                  \/ ip.tag = "V4" /\ ip.o[1] = 128
      [] k = 2 -> ip.tag = "V4" /\ ip.o[1] = 127 /\ ip.o[4] = 1
      [] k = 3 -> ip.tag = "V4"
      [] k = 4 -> ip.tag = "V6"

Line(msg, nums, str) == [msg |-> msg, nums |-> nums, str |-> str]

\* what the body of the taken arm of `match home` prints
HomeArmOutput(k, ip) ==
    CASE k = 1 -> <<Line("I am a V4 starting with 127: 127.{}.{}.{}",
                         <<ip.o[2], ip.o[3], ip.o[4]>>, "")>>
      [] k = 2 -> <<Line("I am also a V4 but not start with 127: {}.{}.{}.{}", ip.o, "")>>
      [] k = 3 -> <<>>

\* what the body of the taken arm of `match loopback` prints
LoopbackArmOutput(k, ip) ==
    CASE k = 1 -> <<Line("V4 127.x.x.x or 128.x.x.x", <<>>, "")>>
      [] k = 2 -> <<Line("V4 127.x.x.1", <<>>, "")>>
      [] k = 3 -> <<Line("Is V4", <<>>, "")>>
      [] k = 4 -> IF ip.s = "::1" THEN <<Line("V6,::1", <<>>, "")>> ELSE <<>>

\* one arm of `match home` is tried: taken if it accepts, else the next arm is tried
MatchHome ==
    /\ program = "ip" /\ pcIp = "match_home"
    /\ IF HomeArmAccepts(arm, home)
       THEN /\ homeArm' = arm
            /\ v6' = (arm = 3)
            /\ ipOut' = ipOut \o HomeArmOutput(arm, home)
            /\ arm' = 1
            /\ pcIp' = "if_let_some"
       ELSE /\ arm' = arm + 1
            /\ UNCHANGED <<homeArm, v6, ipOut, pcIp>>
    /\ UNCHANGED <<home, loopback, loopbackArm, ExceptIp>>

IfLetSome ==
    /\ program = "ip" /\ pcIp = "if_let_some"
    /\ ipOut' = IF v6 THEN ipOut \o <<Line("hurray!", <<>>, "")>> ELSE ipOut
    /\ pcIp' = "if_let_v6"
    /\ UNCHANGED <<home, loopback, arm, homeArm, v6, loopbackArm, ExceptIp>>

\* if let IpAddr::V6(s) = loopback: the value of loopback is what the later
\* match inspects, so the binding is modelled as reading it
IfLetV6 ==
    /\ program = "ip" /\ pcIp = "if_let_v6"
    /\ ipOut' = IF loopback.tag = "V6"
                THEN ipOut \o <<Line("IpV6: {}", <<>>, loopback.s)>> ELSE ipOut
    /\ pcIp' = "match_loopback"
    /\ UNCHANGED <<home, loopback, arm, homeArm, v6, loopbackArm, ExceptIp>>

MatchLoopback ==
    /\ program = "ip" /\ pcIp = "match_loopback"
    /\ IF LoopbackArmAccepts(arm, loopback)
       THEN /\ loopbackArm' = arm
            /\ ipOut' = ipOut \o LoopbackArmOutput(arm, loopback)
            /\ pcIp' = "done"
            /\ UNCHANGED arm
       ELSE /\ arm' = arm + 1
            /\ UNCHANGED <<loopbackArm, ipOut, pcIp>>
    /\ UNCHANGED <<home, loopback, homeArm, v6, ExceptIp>>

(***************************************************************************)
(* lecture7/src/mybox.rs: struct MyBox<T>(T), MyBox::new, Deref::deref     *)
(***************************************************************************)
\* values of the wrapped type T
Values == {-1, 0, 5, 6}

\* how often the wrapper is dereferenced in a run
MaxDerefs == 3

\* MyBox(x): a tuple struct with the single field .0
MyBoxNew(t) == <<t>>

\* faulty variant: deref hands out a default value instead of the field
DerefDefault(self) == 0

\* &self.0
Deref(self) == self[1]

BoxNew ==
    /\ program = "mybox" /\ pcBox = "new"
    /\ z' = MyBoxNew(x)
    /\ pcBox' = "deref"
    /\ UNCHANGED <<x, derefs, ExceptBox>>

\* *z: deref borrows self immutably and returns a reference to the field
BoxDeref ==
    /\ program = "mybox" /\ pcBox = "deref"
    /\ Len(derefs) < MaxDerefs
    /\ derefs' = Append(derefs, Deref(z))
    /\ UNCHANGED <<x, z, pcBox, ExceptBox>>

BoxReturn ==
    /\ program = "mybox" /\ pcBox = "deref"
    /\ pcBox' = "done"
    /\ UNCHANGED <<x, z, derefs, ExceptBox>>

(***************************************************************************)
(* lecture11/src/shared_mem3.rs: Mutex::new, lock, write, unlock, print    *)
(***************************************************************************)
MutexNew(v) == [data |-> v, holders |-> {}]

\* Mutex::lock by thread t: blocks until nobody holds the lock
CanLock(mx, t) == mx.holders = {}
Lock(mx, t) == [mx EXCEPT !.holders = @ \cup {t}]

\* faulty variant: the guard is leaked, the lock stays held
DropGuardLeak(mx, t) == mx

\* the MutexGuard of thread t goes out of scope
DropGuard(mx, t) == [mx EXCEPT !.holders = @ \ {t}]

\* {:?} of a Mutex: the data if the lock can be taken, <locked> otherwise
MutexDebug(mx) ==
    IF mx.holders = {} THEN [locked |-> FALSE, data |-> mx.data]
    ELSE [locked |-> TRUE, data |-> 0]

MutexLock ==
    /\ program = "shared_mem3" /\ pcMutex = "lock"
    /\ CanLock(m, "main")
    /\ m' = Lock(m, "main")
    /\ num' = TRUE
    /\ pcMutex' = "write"
    /\ UNCHANGED <<mOut, ExceptMutex>>

\* *num = 6, through the guard
MutexWrite ==
    /\ program = "shared_mem3" /\ pcMutex = "write"
    /\ num
    /\ m' = [m EXCEPT !.data = 6]
    /\ pcMutex' = "unlock"
    /\ UNCHANGED <<num, mOut, ExceptMutex>>

\* the inner block ends: num is dropped
MutexUnlock ==
    /\ program = "shared_mem3" /\ pcMutex = "unlock"
    /\ m' = DropGuard(m, "main")
    /\ num' = FALSE
    /\ pcMutex' = "print"
    /\ UNCHANGED <<mOut, ExceptMutex>>

MutexPrint ==
    /\ program = "shared_mem3" /\ pcMutex = "print"
    /\ mOut' = Append(mOut, MutexDebug(m))
    /\ pcMutex' = "done"
    /\ UNCHANGED <<m, num, ExceptMutex>>

(***************************************************************************)
(* lecture8/src/rc_example.rs: Rc::new, clone, downgrade, upgrade, drop    *)
(***************************************************************************)
\* The shared allocation of an Rc: the strong count, the weak count (which
\* counts one extra for the strong pointers together, as the standard library
\* does), whether the value is still there and whether the allocation is.
RcNew(v) == [strong |-> 1, weak |-> 1, value |-> v, alive |-> TRUE, allocated |-> TRUE]

RcClone(b) == [b EXCEPT !.strong = @ + 1]

RcDowngrade(b) == [b EXCEPT !.weak = @ + 1]

\* faulty variant: upgrade hands out a pointer without counting it
WeakUpgradeNoCount(b) == b

\* Weak::upgrade: Some (a new strong pointer) iff the value is still alive
UpgradeIsSome(b) == b.strong > 0
WeakUpgrade(b) == IF UpgradeIsSome(b) THEN [b EXCEPT !.strong = @ + 1] ELSE b

StrongCount(b) == b.strong
WeakCount(b) == IF b.weak = 0 THEN 0 ELSE b.weak - 1

\* drop of a strong pointer
RcDrop(b) ==
    IF b.strong > 1 THEN [b EXCEPT !.strong = @ - 1]
    ELSE [b EXCEPT !.strong = 0, !.alive = FALSE, !.weak = @ - 1,
                   !.allocated = (b.weak - 1 > 0)]

\* drop of a weak pointer
WeakDrop(b) == [b EXCEPT !.weak = @ - 1, !.allocated = (b.weak - 1 > 0)]

NoRcBox == [strong |-> 0, weak |-> 0, value |-> 0, alive |-> FALSE, allocated |-> FALSE]

RcPrintLine(b) == <<StrongCount(b), WeakCount(b)>>

\* the statements of main in order: what each does to the allocation, which
\* pointer variables it makes live or dead, and whether it prints the counts
RcCreate ==
    /\ program = "rc_example" /\ pcRc = "new"
    /\ rcbox' = RcNew(5)
    /\ live' = {"rc"}
    /\ pcRc' = "print1"
    /\ UNCHANGED <<rcOut, ExceptRc>>

RcPrint ==
    /\ program = "rc_example" /\ pcRc \in {"print1", "print2", "print3", "print4"}
    /\ rcOut' = Append(rcOut, RcPrintLine(rcbox))
    /\ pcRc' = CASE pcRc = "print1" -> "clone"
                 [] pcRc = "print2" -> "downgrade"
                 [] pcRc = "print3" -> "upgrade"
                 [] pcRc = "print4" -> "drop_rc"
    /\ UNCHANGED <<rcbox, live, ExceptRc>>

RcCloneStep ==
    /\ program = "rc_example" /\ pcRc = "clone"
    /\ rcbox' = RcClone(rcbox)
    /\ live' = live \cup {"strong_ptr1"}
    /\ pcRc' = "print2"
    /\ UNCHANGED <<rcOut, ExceptRc>>

RcDowngradeStep ==
    /\ program = "rc_example" /\ pcRc = "downgrade"
    /\ rcbox' = RcDowngrade(rcbox)
    /\ live' = live \cup {"weak_ptr"}
    /\ pcRc' = "print3"
    /\ UNCHANGED <<rcOut, ExceptRc>>

RcUpgradeStep ==
    /\ program = "rc_example" /\ pcRc = "upgrade"
    /\ rcbox' = WeakUpgrade(rcbox)
    /\ live' = IF UpgradeIsSome(rcbox) THEN live \cup {"strong_ptr2"} ELSE live
    /\ pcRc' = "print4"
    /\ UNCHANGED <<rcOut, ExceptRc>>

\* drop(rc); drop(strong_ptr1); drop(strong_ptr2): strong_ptr2 is an Option
RcDropStrong ==
    /\ program = "rc_example" /\ pcRc \in {"drop_rc", "drop_strong_ptr1", "drop_strong_ptr2"}
    /\ LET ptr == CASE pcRc = "drop_rc" -> "rc"
                    [] pcRc = "drop_strong_ptr1" -> "strong_ptr1"
                    [] pcRc = "drop_strong_ptr2" -> "strong_ptr2"
       IN  /\ rcbox' = IF ptr \in live THEN RcDrop(rcbox) ELSE rcbox
           /\ live' = live \ {ptr}
    /\ pcRc' = CASE pcRc = "drop_rc" -> "drop_strong_ptr1"
                 [] pcRc = "drop_strong_ptr1" -> "drop_strong_ptr2"
                 [] pcRc = "drop_strong_ptr2" -> "drop_weak_ptr"
    /\ UNCHANGED <<rcOut, ExceptRc>>

RcDropWeak ==
    /\ program = "rc_example" /\ pcRc = "drop_weak_ptr"
    /\ rcbox' = WeakDrop(rcbox)
    /\ live' = live \ {"weak_ptr"}
    /\ pcRc' = "done"
    /\ UNCHANGED <<rcOut, ExceptRc>>

(***************************************************************************)
(* Threads: thread::spawn, JoinHandle::join, process exit                  *)
(***************************************************************************)
\* a worker thread that has run to the end of its closure, or panicked on the way
Terminated(w) == w \in {"finished", "panicked"}

\* JoinHandle::join returns once the thread has terminated
CanJoin(w) == Terminated(w)

\* main returns: the process exits and a thread still running is killed
AtExit(w) == IF Terminated(w) \/ w = "unspawned" THEN w ELSE "killed"

(***************************************************************************)
(* lecture11/src/spawn1.rs                                                 *)
(***************************************************************************)
SpawnVec == <<1, 2, 3, 4>>

S1Spawn ==
    /\ program = "spawn1" /\ tMain = "spawn"
    /\ tWorker' = "run"
    /\ tMain' = "drop_v"
    /\ UNCHANGED <<tOut, chan, senders, rxLive, sendLog, ExceptThreads>>

\* drop(v) on line 17: v was moved into the closure, the worker's vector is untouched
S1DropV ==
    /\ program = "spawn1" /\ tMain = "drop_v"
    /\ tMain' = "join"
    /\ UNCHANGED <<tWorker, tOut, chan, senders, rxLive, sendLog, ExceptThreads>>

\* one iteration of `for i in &v`
S1WorkerPrint ==
    /\ program = "spawn1" /\ tWorker = "run"
    /\ Len(tOut) < Len(SpawnVec)
    /\ tOut' = Append(tOut, Line("hi number {} from the spawned thread",
                                 <<SpawnVec[Len(tOut) + 1]>>, ""))
    /\ UNCHANGED <<tMain, tWorker, chan, senders, rxLive, sendLog, ExceptThreads>>

S1WorkerEnd ==
    /\ program = "spawn1" /\ tWorker = "run"
    /\ Len(tOut) = Len(SpawnVec)
    /\ tWorker' = "finished"
    /\ UNCHANGED <<tMain, tOut, chan, senders, rxLive, sendLog, ExceptThreads>>

S1Join ==
    /\ program = "spawn1" /\ tMain = "join"
    /\ CanJoin(tWorker)
    /\ tMain' = "done"
    /\ UNCHANGED <<tWorker, tOut, chan, senders, rxLive, sendLog, ExceptThreads>>

(***************************************************************************)
(* lecture10/src/4capture_by_move.rs, lines 22-25                          *)
(***************************************************************************)
CmSpawn ==
    /\ program = "capture_by_move" /\ tMain = "spawn"
    /\ tWorker' = "run"
    /\ tMain' = "join"
    /\ UNCHANGED <<tOut, chan, senders, rxLive, sendLog, ExceptThreads>>

\* print_closure: println!("Name: {}", name)
CmWorkerPrint ==
    /\ program = "capture_by_move" /\ tWorker = "run"
    /\ tOut' = Append(tOut, Line("Name: {}", <<>>, "Alice"))
    /\ tWorker' = "finished"
    /\ UNCHANGED <<tMain, chan, senders, rxLive, sendLog, ExceptThreads>>

CmJoin ==
    /\ program = "capture_by_move" /\ tMain = "join"
    /\ CanJoin(tWorker)
    /\ tMain' = "done"
    /\ UNCHANGED <<tWorker, tOut, chan, senders, rxLive, sendLog, ExceptThreads>>

(***************************************************************************)
(* lecture11/src/message_passing2.rs                                       *)
(***************************************************************************)
Duck == "one rubber duck in river 1"

\* Sender::send: Ok while the receiver exists, Err once it has been dropped
SendOk(rx) == rx

\* let (tx, rx) = mpsc::channel();
MpChannel ==
    /\ program = "message_passing2" /\ tMain = "channel"
    /\ senders' = {"tx"} /\ rxLive' = TRUE /\ chan' = <<>>
    /\ tMain' = "clone"
    /\ UNCHANGED <<tWorker, tOut, sendLog, ExceptThreads>>

\* let tx1 = tx.clone();
MpClone ==
    /\ program = "message_passing2" /\ tMain = "clone"
    /\ senders' = senders \cup {"tx1"}
    /\ tMain' = "spawn"
    /\ UNCHANGED <<tWorker, tOut, chan, rxLive, sendLog, ExceptThreads>>

\* thread::spawn(move || ...): tx moves into the worker; the handle is discarded
MpSpawn ==
    /\ program = "message_passing2" /\ tMain = "spawn"
    /\ tWorker' = "send"
    /\ tMain' = "print"
    /\ UNCHANGED <<tOut, chan, senders, rxLive, sendLog, ExceptThreads>>

\* tx.send(s).unwrap()
MpWorkerSend ==
    /\ program = "message_passing2" /\ tWorker = "send"
    /\ sendLog' = Append(sendLog, [via |-> "tx", by |-> "worker", ok |-> SendOk(rxLive)])
    /\ IF SendOk(rxLive)
       THEN chan' = Append(chan, Duck) /\ tWorker' = "sleep"
       ELSE chan' = chan /\ tWorker' = "panicked"
    /\ UNCHANGED <<tMain, tOut, senders, rxLive, ExceptThreads>>

\* thread::sleep(Duration::from_secs(1)), then the closure ends and drops tx
MpWorkerSleep ==
    /\ program = "message_passing2" /\ tWorker = "sleep"
    /\ tWorker' = "finished"
    /\ senders' = senders \ {"tx"}
    /\ UNCHANGED <<tMain, tOut, chan, rxLive, sendLog, ExceptThreads>>

\* lines 65-66: the receive on line 64 is commented out, so main prints
\* without taking anything from rx and without waiting for the worker
MpPrint ==
    /\ program = "message_passing2" /\ tMain = "print"
    /\ tOut' = Append(tOut, Line("Got: {}", <<>>, ""))
    /\ tMain' = "drop_tx1"
    /\ UNCHANGED <<tWorker, chan, senders, rxLive, sendLog, ExceptThreads>>

\* main's locals are dropped in reverse order of declaration: tx1, then rx
MpDropTx1 ==
    /\ program = "message_passing2" /\ tMain = "drop_tx1"
    /\ senders' = senders \ {"tx1"}
    /\ tMain' = "drop_rx"
    /\ UNCHANGED <<tWorker, tOut, chan, rxLive, sendLog, ExceptThreads>>

MpDropRx ==
    /\ program = "message_passing2" /\ tMain = "drop_rx"
    /\ rxLive' = FALSE
    /\ tMain' = "exit"
    /\ UNCHANGED <<tWorker, tOut, chan, senders, sendLog, ExceptThreads>>

MpExit ==
    /\ program = "message_passing2" /\ tMain = "exit"
    /\ tWorker' = AtExit(tWorker)
    /\ tMain' = "done"
    /\ UNCHANGED <<tOut, chan, senders, rxLive, sendLog, ExceptThreads>>

(***************************************************************************)
(* lecture10/src/5iterator.rs, lines 21-31: zip, map, filter, map, sum     *)
(***************************************************************************)
\* longest sampled vector
MaxLen == 2

IterV1 == <<I32(1), I32(2), I32(3), I32(4)>>
IterV2 == <<I32(5), I32(6), I32(7), I32(8)>>

IterSamples1 == {I32(-3), I32(2), I32(32768)}
IterSamples2 == {I32(1), I32(32768), I32(1073741823)}

VecPairs ==
    {<<a, b>> : a \in SeqsUpTo(IterSamples1, MaxLen), b \in SeqsUpTo(IterSamples2, MaxLen)}
        \cup {<<IterV1, IterV2>>}

\* zip yields pairs until either iterator is exhausted
ZipLen(a, b) == Min(Len(a), Len(b))

\* faulty variant: the filter keeps the odd products
IsOdd(n) == n[1] % 2 = 1

\* .filter(|x| x % 2 == 0)
IsEven(n) == n[1] % 2 = 0

\* .map(|x| x + 10)
PlusTen(n, checks) == AddI32(n, I32(10), checks)

\* what one pair (a, b) of the zip becomes: the product, dropped (no result)
\* when it is odd, plus ten when it is even; either operation may panic
MapFilterMap(a, b, checks) ==
    LET prod == MulI32(a, b, checks)
    IN  IF prod.st = "panic" THEN Panicked
        ELSE IF IsEven(prod.val) THEN PlusTen(prod.val, checks)
        ELSE NoResult

\* one pair is pulled through zip, map, filter and map into the collected Vec
IterNext ==
    /\ program = "iterator" /\ pcIter = "collect"
    /\ zipIdx <= ZipLen(v1, v2)
    /\ \E item \in {MapFilterMap(v1[zipIdx], v2[zipIdx], overflowChecks)} :
           IF item.st = "panic"
           THEN pcIter' = "panicked" /\ UNCHANGED <<zipIdx, collected>>
           ELSE /\ collected' = IF item.st = "ok" THEN Append(collected, item.val)
                                ELSE collected
                /\ zipIdx' = zipIdx + 1
                /\ UNCHANGED pcIter
    /\ UNCHANGED <<v1, v2, sumIdx, sum, ExceptIter>>

\* the zip is exhausted: collect returns and .iter().sum() starts from 0
IterCollected ==
    /\ program = "iterator" /\ pcIter = "collect"
    /\ zipIdx > ZipLen(v1, v2)
    /\ sum' = Ok(I32(0))
    /\ pcIter' = "sum"
    /\ UNCHANGED <<v1, v2, zipIdx, collected, sumIdx, ExceptIter>>

IterSum ==
    /\ program = "iterator" /\ pcIter = "sum"
    /\ sumIdx <= Len(collected)
    /\ sum' = AddI32(sum.val, collected[sumIdx], overflowChecks)
    /\ IF sum'.st = "panic"
       THEN pcIter' = "panicked" /\ UNCHANGED sumIdx
       ELSE sumIdx' = sumIdx + 1 /\ UNCHANGED pcIter
    /\ UNCHANGED <<v1, v2, zipIdx, collected, ExceptIter>>

\* println!("the result is {}", sum)
IterPrint ==
    /\ program = "iterator" /\ pcIter = "sum"
    /\ sumIdx > Len(collected)
    /\ pcIter' = "done"
    /\ UNCHANGED <<v1, v2, zipIdx, collected, sumIdx, sum, ExceptIter>>

(***************************************************************************)
(* lecture12/lecture12/src/1deckarative_macro.rs, lines 38-58: add!        *)
(***************************************************************************)
\* most arguments in a sampled invocation
MaxArgs == 3

MacroSamples == {I32(-1), I32(1), I32(2), I32(2147483647)}

ExprTok(v) == [kind |-> "expr", val |-> v]
CommaTok == [kind |-> "comma", val |-> <<>>]

\* the token trees of add!(a1, a2, ..., an)
Tokens(as) ==
    [i \in 1..(2 * Len(as) - 1) |-> IF i % 2 = 1 THEN ExprTok(as[(i + 1) \div 2]) ELSE CommaTok]

\* ($a:expr,$b:expr)
Arm1Matches(ts) ==
    Len(ts) = 3 /\ ts[1].kind = "expr" /\ ts[2].kind = "comma" /\ ts[3].kind = "expr"
\* ($a:expr)
Arm2Matches(ts) == Len(ts) = 1 /\ ts[1].kind = "expr"
\* ($a:expr,$($b:tt)*)
Arm3Matches(ts) == Len(ts) >= 2 /\ ts[1].kind = "expr" /\ ts[2].kind = "comma"

\* faulty variant: the recursive arm is written first
FirstArmRecursiveFirst(ts) ==
    IF Arm3Matches(ts) THEN 3
    ELSE IF Arm1Matches(ts) THEN 1
    ELSE IF Arm2Matches(ts) THEN 2
    ELSE 0

\* the arms are tried in the order they are written; 0: no rule matches
FirstArm(ts) ==
    IF Arm1Matches(ts) THEN 1
    ELSE IF Arm2Matches(ts) THEN 2
    ELSE IF Arm3Matches(ts) THEN 3
    ELSE 0

\* { $a+$b }
ExpandArm1 ==
    /\ program = "macro" /\ pcMacro = "expand"
    /\ FirstArm(tokens) = 1
    /\ operands' = operands \o <<tokens[1].val, tokens[3].val>>
    /\ tokens' = <<>>
    /\ armsUsed' = Append(armsUsed, 1)
    /\ pcMacro' = "eval"
    /\ UNCHANGED <<args, acc, ExceptMacro>>

\* { $a }
ExpandArm2 ==
    /\ program = "macro" /\ pcMacro = "expand"
    /\ FirstArm(tokens) = 2
    /\ operands' = Append(operands, tokens[1].val)
    /\ tokens' = <<>>
    /\ armsUsed' = Append(armsUsed, 2)
    /\ pcMacro' = "eval"
    /\ UNCHANGED <<args, acc, ExceptMacro>>

\* { $a+add!($($b)*) }: the invocation left to expand is add! of the remaining tokens
ExpandArm3 ==
    /\ program = "macro" /\ pcMacro = "expand"
    /\ FirstArm(tokens) = 3
    /\ operands' = Append(operands, tokens[1].val)
    /\ tokens' = SubSeq(tokens, 3, Len(tokens))
    /\ armsUsed' = Append(armsUsed, 3)
    /\ UNCHANGED <<args, acc, pcMacro, ExceptMacro>>

\* the expansion a1+{a2+{...+an}} is evaluated: the innermost block first
MacroEval ==
    /\ program = "macro" /\ pcMacro = "eval"
    /\ operands # <<>>
    /\ LET last == operands[Len(operands)]
       IN  acc' = IF acc.st = "none" THEN Ok(last)
                  ELSE AddI32(last, acc.val, overflowChecks)
    /\ IF acc'.st = "panic"
       THEN pcMacro' = "panicked" /\ UNCHANGED operands
       ELSE /\ operands' = SubSeq(operands, 1, Len(operands) - 1)
            /\ UNCHANGED pcMacro
    /\ UNCHANGED <<args, tokens, armsUsed, ExceptMacro>>

MacroDone ==
    /\ program = "macro" /\ pcMacro = "eval"
    /\ operands = <<>>
    /\ pcMacro' = "done"
    /\ UNCHANGED <<args, tokens, operands, armsUsed, acc, ExceptMacro>>

(***************************************************************************)
(* The programs                                                            *)
(***************************************************************************)
Init ==
    /\ program \in Programs
    /\ overflowChecks \in (IF program \in {"paths", "iterator", "macro"} THEN BOOLEAN ELSE {TRUE})
    /\ rect = NoRect /\ area = NoResult /\ perimeter = NoResult /\ pcPaths = "new"
    /\ home \in (IF program = "ip" THEN IpSamples ELSE {V4(127, 0, 0, 1)})
    /\ loopback \in (IF program = "ip" THEN IpSamples ELSE {V6("::1")})
    /\ pcIp = "match_home" /\ arm = 1 /\ homeArm = 0 /\ v6 = FALSE
    /\ loopbackArm = 0 /\ ipOut = <<>>
    /\ x \in (IF program = "mybox" THEN Values ELSE {5})
    /\ z = <<>> /\ derefs = <<>> /\ pcBox = "new"
    /\ m = MutexNew(5) /\ num = FALSE /\ mOut = <<>> /\ pcMutex = "lock"
    /\ rcbox = NoRcBox /\ live = {} /\ rcOut = <<>> /\ pcRc = "new"
    /\ tMain = (IF program = "message_passing2" THEN "channel" ELSE "spawn")
    /\ tWorker = "unspawned" /\ tOut = <<>> /\ chan = <<>>
    /\ senders = {} /\ rxLive = FALSE /\ sendLog = <<>>
    /\ \E pair \in (IF program = "iterator" THEN VecPairs ELSE {<<IterV1, IterV2>>}) :
          v1 = pair[1] /\ v2 = pair[2]
    /\ zipIdx = 1 /\ collected = <<>> /\ sumIdx = 1
    /\ sum = NoResult /\ pcIter = "collect"
    /\ args \in (IF program = "macro" THEN SeqsUpTo(MacroSamples, MaxArgs) \ {<<>>}
                 ELSE {<<I32(1), I32(2)>>})
    /\ tokens = Tokens(args) /\ operands = <<>> /\ armsUsed = <<>>
    /\ acc = NoResult /\ pcMacro = "expand"

Next ==
    \/ NewRect \/ GetArea \/ GetPerimeter
    \/ MatchHome \/ IfLetSome \/ IfLetV6 \/ MatchLoopback
    \/ BoxNew \/ BoxDeref \/ BoxReturn
    \/ MutexLock \/ MutexWrite \/ MutexUnlock \/ MutexPrint
    \/ RcCreate \/ RcPrint \/ RcCloneStep \/ RcDowngradeStep \/ RcUpgradeStep
    \/ RcDropStrong \/ RcDropWeak
    \/ S1Spawn \/ S1DropV \/ S1WorkerPrint \/ S1WorkerEnd \/ S1Join
    \/ CmSpawn \/ CmWorkerPrint \/ CmJoin
    \/ MpChannel \/ MpClone \/ MpSpawn \/ MpWorkerSend \/ MpWorkerSleep
    \/ MpPrint \/ MpDropTx1 \/ MpDropRx \/ MpExit
    \/ IterNext \/ IterCollected \/ IterSum \/ IterPrint
    \/ ExpandArm1 \/ ExpandArm2 \/ ExpandArm3 \/ MacroEval \/ MacroDone

Spec == Init /\ [][Next]_vars

(***************************************************************************)
(* Properties                                                              *)
(***************************************************************************)
\* the exact (wide) value of a u32 / an i32, and whether a wide value fits 32 bits
FitsU32(w) == ZeroExt(SubSeq(w, 1, U32Limbs)) = w
FitsI32(w) == SignExt(SubSeq(w, 1, U32Limbs)) = w
WideZero == [i \in 1..WideLimbs |-> 0]

\* C1: get_area on a Rect built from any u32 width and height returns
\* exactly width x height, also when the product is 2^32 or more.
C1_AreaIsExactProduct ==
    (program = "paths" /\ area.st # "none") =>
        /\ area.st = "ok"
        /\ ZeroExt(area.val) = WrapMul(ZeroExt(rect.width), ZeroExt(rect.height))

\* C2: get_perimeter returns exactly 2 x (width + height) for any u32 width
\* and height, also when width*2, height*2 or their sum is 2^32 or more.
C2_PerimeterIsExact ==
    (program = "paths" /\ perimeter.st # "none") =>
        /\ perimeter.st = "ok"
        /\ ZeroExt(perimeter.val) =
               WrapMul(ZeroExt(U32(2)), WrapAdd(ZeroExt(rect.width), ZeroExt(rect.height)))

\* C3: each match takes the first arm, in declaration order, that accepts the
\* value.  Second match: V4 with first octet 127 or 128 -> or-pattern arm (never
\* the guard arm), any other V4 -> `Is V4`, V6 -> the V6 arm.  First match: V4
\* starting with 127 -> first arm, other V4 -> second arm, only V6 yields Some.
ExpectedHomeArm(ip) ==
    IF ip.tag = "V4" /\ ip.o[1] = 127 THEN 1 ELSE IF ip.tag = "V4" THEN 2 ELSE 3
ExpectedLoopbackArm(ip) ==
    IF ip.tag = "V4" /\ ip.o[1] \in {127, 128} THEN 1 ELSE IF ip.tag = "V4" THEN 3 ELSE 4
C3_FirstMatchingArm ==
    program = "ip" =>
        /\ homeArm # 0 =>
              /\ homeArm = ExpectedHomeArm(home)
              /\ HomeArmAccepts(homeArm, home)
              /\ \A j \in 1..(homeArm - 1) : ~HomeArmAccepts(j, home)
              /\ v6 = (home.tag = "V6")
        /\ loopbackArm # 0 =>
              /\ loopbackArm = ExpectedLoopbackArm(loopback)
              /\ loopbackArm # 2
              /\ LoopbackArmAccepts(loopbackArm, loopback)
              /\ \A j \in 1..(loopbackArm - 1) : ~LoopbackArmAccepts(j, loopback)
C3_Witness ==
    /\ program = "ip" /\ pcIp = "done"
    /\ loopback = V4(127, 0, 0, 1) /\ loopbackArm = 1
    /\ home = V6("::1") /\ homeArm = 3 /\ v6

\* C4: dereferencing MyBox::new(x) returns exactly x, and deref leaves the
\* wrapped value unchanged, so repeated dereferences return the same value.
C4_DerefReturnsValue ==
    program = "mybox" =>
        /\ \A i \in 1..Len(derefs) : derefs[i] = x
        /\ pcBox # "new" => z = <<x>>
C4_Witness == program = "mybox" /\ x = 5 /\ Len(derefs) >= 2 /\ pcBox = "done"

\* C5: in spawn1, 4capture_by_move and message_passing2 main blocks on the
\* worker (join or receive) before it finishes: main never completes while
\* the worker still has prints or a send outstanding.
WorkOutstanding ==
    CASE program = "spawn1" -> Len(tOut) < Len(SpawnVec)
      [] program = "capture_by_move" -> tOut = <<>>
      [] program = "message_passing2" -> sendLog = <<>>
      [] OTHER -> FALSE
C5_MainWaitsForWorker == tMain = "done" => ~WorkOutstanding

\* C6: the lock taken inside the inner block is released when the block ends:
\* at the final print the mutex is held by nobody and its value is 6, the data
\* changes only while the lock is held, and the lock never has two holders.
C6_MutexState ==
    program = "shared_mem3" =>
        /\ Cardinality(m.holders) <= 1
        /\ num = (m.holders = {"main"})
        /\ pcMutex \in {"print", "done"} => m.holders = {} /\ m.data = 6
        /\ pcMutex \in {"lock", "write"} => m.data = 5
        /\ pcMutex = "done" => mOut = <<[locked |-> FALSE, data |-> 6]>>
C6_MutexReleasedAtBlockEnd ==
    /\ []C6_MutexState
    /\ [][m.data' # m.data => m.holders = {"main"} /\ m'.holders = {"main"}]_vars
C6_Witness ==
    program = "shared_mem3" /\ pcMutex = "done" /\ m.data = 6 /\ m.holders = {}

\* C7: the value is destroyed exactly at the drop that brings the strong count
\* to 0; it is alive while rc, strong_ptr1 or strong_ptr2 is live; the prints
\* show strong 1, 2, 2, 3 and weak 0, 0, 1, 1; the live weak pointer keeps only
\* the allocation, which goes when weak_ptr is dropped.
RcExpected == <<(<<1, 0>>), (<<2, 0>>), (<<2, 1>>), (<<3, 1>>)>>
StrongPtrs == {"rc", "strong_ptr1", "strong_ptr2"}
C7_RcState ==
    (program = "rc_example" /\ pcRc # "new") =>
        /\ Len(rcOut) <= 4
        /\ \A i \in 1..Len(rcOut) : rcOut[i] = RcExpected[i]
        /\ pcRc \in {"drop_rc", "drop_strong_ptr1", "drop_strong_ptr2",
                     "drop_weak_ptr", "done"} => Len(rcOut) = 4
        /\ rcbox.alive = (live \cap StrongPtrs # {})
        /\ rcbox.alive = (rcbox.strong > 0)
        /\ rcbox.strong = Cardinality(live \cap StrongPtrs)
        /\ rcbox.allocated = (live # {})
        /\ pcRc = "drop_weak_ptr" => ~rcbox.alive /\ rcbox.allocated /\ live = {"weak_ptr"}
        /\ pcRc = "done" => ~rcbox.alive /\ ~rcbox.allocated
C7_RcDestroyedAtLastStrongDrop ==
    /\ []C7_RcState
    /\ [][(rcbox.alive /\ ~rcbox'.alive) => (rcbox.strong = 1 /\ rcbox'.strong = 0)]_vars
C7_Witness ==
    /\ program = "rc_example" /\ pcRc = "drop_weak_ptr"
    /\ ~rcbox.alive /\ rcbox.allocated /\ rcOut = RcExpected

\* C8: over any execution exactly one send occurs on the channel, made by the
\* single worker through tx; tx1 never sends; the channel never holds more
\* than one message.
C8_ExactlyOneSend ==
    program = "message_passing2" =>
        /\ Len(chan) <= 1
        /\ Len(sendLog) <= 1
        /\ \A i \in 1..Len(sendLog) : sendLog[i].via = "tx" /\ sendLog[i].by = "worker"
        /\ tMain = "done" => Len(sendLog) = 1

\* C9: for any two integer vectors the result is the sum of (a_i*b_i + 10) over
\* the indices i (up to the shorter length) whose product a_i*b_i is even; for
\* v1=[1,2,3,4], v2=[5,6,7,8] it is 64.
WideProd(i) == WrapMul(SignExt(v1[i]), SignExt(v2[i]))
RECURSIVE ExactSumTo(_)
ExactSumTo(n) ==
    IF n = 0 THEN WideZero
    ELSE IF WideProd(n)[1] % 2 = 0
         THEN WrapAdd(ExactSumTo(n - 1), WrapAdd(WideProd(n), SignExt(I32(10))))
         ELSE ExactSumTo(n - 1)
C9_PipelineSum ==
    (program = "iterator" /\ pcIter \in {"done", "panicked"}) =>
        /\ pcIter = "done"
        /\ sum.st = "ok"
        /\ SignExt(sum.val) = ExactSumTo(ZipLen(v1, v2))
        /\ (v1 = IterV1 /\ v2 = IterV2) => sum.val = I32(64)

\* C9 as amended: the same, for vectors of i32 on which no product, no
\* product + 10 and no partial sum leaves the i32 range; when one does, a build
\* with overflow checks panics and one without returns the sum modulo 2^32.
IterNoOverflow ==
    \A i \in 1..ZipLen(v1, v2) :
        /\ FitsI32(WideProd(i))
        /\ WideProd(i)[1] % 2 = 0 => FitsI32(WrapAdd(WideProd(i), SignExt(I32(10))))
        /\ FitsI32(ExactSumTo(i))
C9_PipelineSumWithinI32 ==
    program = "iterator" =>
        /\ pcIter = "panicked" => (overflowChecks /\ ~IterNoOverflow)
        /\ (pcIter = "done" /\ overflowChecks) => IterNoOverflow
        /\ pcIter = "done" =>
              /\ sum.st = "ok"
              /\ sum.val = SubSeq(ExactSumTo(ZipLen(v1, v2)), 1, U32Limbs)
              /\ IterNoOverflow => SignExt(sum.val) = ExactSumTo(ZipLen(v1, v2))
              /\ (v1 = IterV1 /\ v2 = IterV2) => sum.val = I32(64)
C9_Witness ==
    /\ program = "iterator" /\ pcIter = "done"
    /\ v1 = IterV1 /\ v2 = IterV2 /\ sum = Ok(I32(64))
    /\ Len(collected) = 2

\* C10: add! evaluates to the sum of its arguments for every non-empty
\* comma-separated list: one argument takes the one-argument arm, two the
\* two-argument arm, three or more the recursive arm until two are left.
RECURSIVE WideSuffixSum(_)
WideSuffixSum(k) ==
    IF k > Len(args) THEN WideZero ELSE WrapAdd(SignExt(args[k]), WideSuffixSum(k + 1))
ExpectedArms(n) == IF n = 1 THEN <<2>> ELSE [i \in 1..(n - 1) |-> IF i < n - 1 THEN 3 ELSE 1]
C10_AddMacroSum ==
    (program = "macro" /\ pcMacro \in {"done", "panicked"}) =>
        /\ pcMacro = "done"
        /\ acc.st = "ok"
        /\ SignExt(acc.val) = WideSuffixSum(1)
        /\ armsUsed = ExpectedArms(Len(args))

\* C10 as amended: the same, for i32 arguments on which no addition of the
\* right-nested expansion a1+(a2+(...+an)) leaves the i32 range; when one
\* does, a build with overflow checks panics and one without wraps.
MacroNoOverflow == \A k \in 1..Len(args) : FitsI32(WideSuffixSum(k))
C10_AddMacroSumWithinI32 ==
    program = "macro" =>
        /\ pcMacro = "panicked" => (overflowChecks /\ ~MacroNoOverflow)
        /\ (pcMacro = "done" /\ overflowChecks) => MacroNoOverflow
        /\ pcMacro \in {"eval", "done", "panicked"} => armsUsed = ExpectedArms(Len(args))
        /\ pcMacro = "done" =>
              /\ acc.st = "ok"
              /\ acc.val = SubSeq(WideSuffixSum(1), 1, U32Limbs)
              /\ MacroNoOverflow => SignExt(acc.val) = WideSuffixSum(1)
C10_Witness ==
    /\ program = "macro" /\ pcMacro = "done"
    /\ args = <<I32(1), I32(2), I32(1)>> /\ acc = Ok(I32(4))
    /\ armsUsed = <<3, 1>>

====
